---- MODULE Spec2Model ----
\* Model of the IRIS upload player's anomaly pipeline:
\*   src/src/ui/App.tsx  UploadLoopPlayer (analyze loop, onScore, resetForLoop,
\*                       video / button handlers), DpcmGraph density buffers
\*   src/src/ui/ai.ts    createVideoAnomalyDetector (load, step, start, stop)
\*   src/src/ui/ws.ts    connectAggregator (messages of the aggregator socket)
\*
\* Scores and thresholds are fixed-point integers in units of 1e-5
\* (0.20 = 20000); a mean is kept as the pair (sum, length) and compared by
\* cross-multiplication, so every comparison of the source is exact.
\* Times are milliseconds, as Date.now() returns them.
EXTENDS Integers, Sequences, FiniteSets, TLC

\* ---------------------------------------------------------------- numbers
ScoreOne == 100000
InitSensitivity == 20000
ExitMargin == 10000
SustainMax == 10
SustainOn == 3
HoldFrames == 8
WarmupFrames == 6
ScoreBufCap == 8
DiffMargin == 500
EmbMargin == 1000
DiffCooldown == 5000
EmbCooldown == 8000
RateWindowMs == 10000
RateCap == 120
RecentWindowMs == 60000
SensMin == 15000
SensMax == 60000
TargetEdges == 2
StepPerEdge == 25
ApplyEps == 50
ValuesCap == 300
ActCap == 600
NotifCap == 100
ToastCap == 5
NormGain == 4
BlockSize == 8
OverlayScale == 2
AlphaPct == 35

\* ---------------------------------------------------------------- bounds
StartTime == 100000
TimeStep == 3000
Duration == 2
MaxLoads == 2
MaxDets == 2
MaxInflight == 2
MaxOrphans == 1
MaxStepsPipe == 10
MaxEdges == 1
MaxElapse == 1
FramesPerWindow == 40
BurstFrames == 4
MaxWindows == 4
MaxEvents == 3
PulsePeriod == 50
PulseCycle == 36
PulseBurst == 4
PulseFrames == 300
DensePeriod == 2
DenseCycle == 32
DenseBurst == 2
DenseFrames == 4200

\* ---------------------------------------------------------------- helpers
Min(a, b) == IF a < b THEN a ELSE b

Max(a, b) == IF a > b THEN a ELSE b

Abs(a) == IF a < 0 THEN 0 - a ELSE a

RECURSIVE SumSeq(_)
SumSeq(s) == IF s = <<>> THEN 0 ELSE Head(s) + SumSeq(Tail(s))

\* push(x); if (length > cap) shift()
PushCap(buf, x, cap) ==
  LET b == Append(buf, x) IN IF Len(b) > cap THEN Tail(b) ELSE b

\* length of an array after push(x); if (length > cap) shift()
BumpLen(n, cap) == IF n + 1 > cap THEN n ELSE n + 1

\* Math.min(1, Math.max(0, norm * 4)); the argument is norm in 1e-5 units
RawScore(norm) == Min(ScoreOne, Max(0, norm * NormGain))

NoBox == [x |-> -1, y |-> -1, w |-> -1, h |-> -1]

\* EmaRound truncating instead of rounding to the nearest integer
EmaFloor(r, old) == (AlphaPct * r + (100 - AlphaPct) * old) \div 100

\* Math.round(alpha * r + (1 - alpha) * old) for non-negative integers
EmaRound(r, old) == (AlphaPct * r + (100 - AlphaPct) * old + 50) \div 100

\* block coordinates scaled to the overlay
ObservedBox(bx, by) ==
  [x |-> bx * OverlayScale, y |-> by * OverlayScale,
   w |-> BlockSize * OverlayScale, h |-> BlockSize * OverlayScale]

BoxEma(prev, bx, by) ==
  LET o == ObservedBox(bx, by) IN
  IF prev = NoBox THEN o
  ELSE [x |-> EmaRound(o.x, prev.x), y |-> EmaRound(o.y, prev.y),
        w |-> EmaRound(o.w, prev.w), h |-> EmaRound(o.h, prev.h)]

\* BoxStep that follows the max block also while inactive
BoxStepAlways(prev, act, norm, bx, by) ==
  IF norm > 0 THEN BoxEma(prev, bx, by) ELSE prev

\* App.tsx 1376-1391: the box moves if (activeRef.current && maxBlockSum > 0);
\* maxBlockSum > 0 exactly when the frame difference, hence norm, is positive
BoxStep(prev, act, norm, bx, by) ==
  IF act /\ norm > 0 THEN BoxEma(prev, bx, by) ELSE prev

\* ---------------------------------------------------------------- state
VARIABLES
  \* React state of UploadLoopPlayer and App
  analyzing, hasMedia, alertsEnabled, sensitivity, aiReady, playActive,
  \* values captured by the analyze effect's closure, its local lastFrame
  \* (TRUE = a previous frame is held) and the pending animation frame
  cSens, cAlerts, lastFrame, rafPending,
  \* refs of UploadLoopPlayer
  warmup, scoreBuf, lastFire, sustain, active, hold, boxEma,
  recentActivations, prevActive, recentScores, prevTime, detectorRef,
  \* (recentScores: the set of timestamps held by recentScoresRef)
  \* window.__ai_threshold (-1 = undefined) and DpcmGraph's buffers (lengths)
  aiThreshold, valuesLen, actLen,
  \* pending model loads (suspended maybeInit calls) and created detectors
  loads, dets,
  \* the video element
  srcSet, paused, pos, pendingPlay, pendingPause, pendingSeeking,
  \* Date.now()
  now,
  \* ws.ts: the socket is open, a reconnect timeout is pending; the events
  \* handed to App's callback; (history) the kind of the last message
  wsOpen, wsReopen, wsEvents, wsLast,
  \* ws.ts: the disconnect function returned by connectAggregator was called
  disconnected,
  \* App: the camera switch, the rear upload player is playing; the lengths
  \* of the notification log and of the toast list; the defect held by
  \* lastDefect (its position in wsEvents, 0 = null)
  camEnabled, rearPlaying, notifLen, toastLen, lastDefect,
  \* history variables: last handler, number of handlers run, what the last
  \* handler published, bookkeeping for the temporal claims
  op, steps, firedSrc, avgSum, avgLen, cbStale, lastDiffFire, lastEmbFire,
  needReset, stopped, fedRun, aboveRun, holdRun, zeroRun, zeroTotal,
  \* (history) the scored ticks in a row that found the mean below exit
  belowRun

reactVars == <<analyzing, hasMedia, alertsEnabled, sensitivity, aiReady, playActive>>

closureVars == <<cSens, cAlerts, lastFrame, rafPending>>

smVars == <<sustain, active, hold>>

coreVars == <<warmup, scoreBuf, lastFire, sustain, active, hold, boxEma,
              recentActivations, prevActive, recentScores>>

graphVars == <<aiThreshold, valuesLen, actLen>>

detVars == <<loads, dets, detectorRef>>

videoVars == <<srcSet, paused, pos, pendingPlay, pendingPause, pendingSeeking>>

histVars == <<fedRun, aboveRun, holdRun, zeroRun, zeroTotal>>

fireVars == <<firedSrc, avgSum, avgLen, cbStale, lastDiffFire, lastEmbFire>>

wsVars == <<wsOpen, wsReopen, wsEvents, wsLast, disconnected>>

appVars == <<camEnabled, rearPlaying>>

logVars == <<notifLen, toastLen, lastDefect>>

vars == <<reactVars, closureVars, coreVars, prevTime, graphVars, detVars,
          videoVars, now, op, steps, fireVars, needReset, stopped, histVars,
          belowRun,
          wsVars, appVars, logVars>>

autoTune == TRUE

\* the player as mounted (camera switched off); the graph component may be
\* new (empty buffers) or have run before
PlayerInit ==
  /\ analyzing = FALSE /\ hasMedia = FALSE /\ alertsEnabled = TRUE
  /\ sensitivity = InitSensitivity /\ aiReady = FALSE /\ playActive = FALSE
  /\ cSens = InitSensitivity /\ cAlerts = TRUE /\ lastFrame = FALSE
  /\ rafPending = FALSE
  /\ warmup = 0 /\ scoreBuf = <<>> /\ lastFire = 0
  /\ sustain = 0 /\ active = FALSE /\ hold = 0 /\ boxEma = NoBox
  /\ recentActivations = <<>> /\ prevActive = FALSE /\ recentScores = {}
  /\ prevTime = 0 /\ detectorRef = 0
  /\ loads = <<>> /\ dets = <<>>
  /\ srcSet = FALSE /\ paused = TRUE /\ pos = 0
  /\ pendingPlay = FALSE /\ pendingPause = FALSE /\ pendingSeeking = FALSE
  /\ now = StartTime
  /\ wsOpen = TRUE /\ wsReopen = FALSE /\ wsEvents = <<>> /\ wsLast = "none"
  /\ disconnected = FALSE
  /\ camEnabled = FALSE /\ rearPlaying = FALSE /\ lastDefect = 0
  /\ op = "init" /\ steps = 0 /\ firedSrc = "none" /\ avgSum = 0 /\ avgLen = 0
  /\ cbStale = FALSE /\ lastDiffFire = 0 /\ lastEmbFire = 0
  /\ needReset = FALSE /\ stopped = FALSE
  /\ fedRun = 0 /\ aboveRun = 0 /\ holdRun = -1 /\ zeroRun = 0 /\ zeroTotal = 0
  /\ belowRun = 0

\* first use of the application: DpcmGraph has received no event yet
Init ==
  /\ PlayerInit
  /\ aiThreshold = -1 /\ valuesLen = 0 /\ actLen = 0
  /\ notifLen = 0 /\ toastLen = 0

\* the player mounted again (camera switched on and off) after a long
\* playback: DpcmGraph stayed mounted and its buffers are at capacity, the
\* notification log is full and the last detections are still on screen
InitWarm ==
  /\ PlayerInit
  /\ aiThreshold = InitSensitivity /\ valuesLen = ValuesCap /\ actLen = ActCap
  /\ notifLen = NotifCap /\ toastLen = ToastCap

\* ---------------------------------------------------------------- detector
\* ai.ts: the object returned by createVideoAnomalyDetector.  ready = the
\* model loaded (otherwise start/stop are the no-op fallbacks); timerLive =
\* the variable timer names a timeout that has not fired; orphans = pending
\* timeouts no longer named by timer; inflight = steps suspended at the
\* await of the inference, of which stale (history) were begun before the
\* latest resetForLoop; sens, alerts = what the onScore closure captured.
NewDetector(ok, ld) ==
  [ready |-> ok, running |-> FALSE, timerLive |-> FALSE, orphans |-> 0,
   inflight |-> 0, stale |-> 0, hasMean |-> FALSE,
   sens |-> ld.sens, alerts |-> ld.alerts]

\* step() up to its await: returns at once unless running
StepBegin(d) == IF d.running THEN [d EXCEPT !.inflight = @ + 1] ELSE d

\* DetStart that also starts the fallback object of a failed load
DetStartAny(d) ==
  IF ~d.running THEN StepBegin([d EXCEPT !.running = TRUE]) ELSE d

\* start: () => { if (!running) { running = true; step() } }
DetStart(d) ==
  IF d.ready /\ ~d.running THEN StepBegin([d EXCEPT !.running = TRUE]) ELSE d

\* stop: () => { running = false; if (timer) { clearTimeout(timer); timer = null } }
DetStop(d) ==
  IF d.ready THEN [d EXCEPT !.running = FALSE, !.timerLive = FALSE] ELSE d

\* StepFinally that schedules nothing
StepFinallyNone(d) == d

\* finally { if (running) timer = window.setTimeout(step, intervalMs) }
StepFinally(d) ==
  IF d.running
  THEN [d EXCEPT !.timerLive = TRUE,
                 !.orphans = IF d.timerLive THEN @ + 1 ELSE @]
  ELSE d

\* detectorRef.current?.stop() and ?.start() (ref = 0 is null)
StopRef(ds, ref) == IF ref = 0 THEN ds ELSE [ds EXCEPT ![ref] = DetStop(@)]

StartRef(ds, ref) == IF ref = 0 THEN ds ELSE [ds EXCEPT ![ref] = DetStart(@)]

MarkStale(ds) == [i \in DOMAIN ds |-> [ds[i] EXCEPT !.stale = ds[i].inflight]]

\* resetForLoop's last two lines: detectorRef.current?.stop(); ?.start()
RestartDetector(ds, ref) == StartRef(StopRef(MarkStale(ds), ref), ref)

\* The detector effect (deps analyzing, hasMedia, sensitivity): cleanup stops
\* the detector in detectorRef; maybeInit starts it, or, when detectorRef is
\* still null, suspends on a new createVideoAnomalyDetector call.
InitEffectDets(ds, ref, rerun, an, hm) ==
  IF ~rerun THEN ds
  ELSE IF an /\ hm THEN StartRef(StopRef(ds, ref), ref)
  ELSE StopRef(ds, ref)

InitEffectLoads(ls, ref, rerun, an, hm, sens, alerts) ==
  IF rerun /\ an /\ hm /\ ref = 0
  THEN Append(ls, [sens |-> sens, alerts |-> alerts])
  ELSE ls

\* The analyze effect (deps analyzing, hasMedia, onIrregularity): a re-run
\* cancels the pending frame, makes a fresh closure (lastFrame = null, the
\* state values of that render) and schedules a frame if analyzing && hasMedia.
AnalyzeEffect(rerun, lf) ==
  IF rerun
  THEN /\ cSens' = sensitivity' /\ cAlerts' = alertsEnabled'
       /\ lastFrame' = FALSE /\ rafPending' = (analyzing' /\ hasMedia')
  ELSE /\ cSens' = cSens /\ cAlerts' = cAlerts
       /\ lastFrame' = lf /\ rafPending' = rafPending

\* history bookkeeping shared by the handlers that publish no detection
QuietOp(name) ==
  /\ op' = name /\ firedSrc' = "none" /\ cbStale' = FALSE
  /\ avgSum' = 0 /\ avgLen' = 0
  /\ UNCHANGED <<lastDiffFire, lastEmbFire>>

\* the same for the handlers that also leave App's log, toasts and last
\* defect alone
Quiet(name) == QuietOp(name) /\ UNCHANGED logVars

\* PrependCap without the slice
PrependFree(len, cap) == len + 1

\* App.tsx 316-326: [{ id, ...t }, ...prev].slice(0, cap), the list grows by
\* one entry at the front and loses its last (oldest) entry beyond cap
PrependCap(len, cap) == Min(cap, len + 1)

\* App's onIrregularity props, App.tsx 362-376 and 390-404: (flashAlert,
\* beep,) appendNotification(toast); pushToast(toast)
Notify(fire) ==
  /\ notifLen' = IF fire THEN PrependCap(notifLen, NotifCap) ELSE notifLen
  /\ toastLen' = IF fire THEN PrependCap(toastLen, ToastCap) ELSE toastLen
  /\ lastDefect' = lastDefect

\* ---------------------------------------------------------------- state machine
\* SustainStep with the dead zone lost: every frame not above entry decays
SustainStepLeaky(sus, sum, len, entry) ==
  IF sum > entry * len THEN Min(SustainMax, sus + 1) ELSE Max(0, sus - 1)

\* ExitThr with the margin added instead of subtracted
ExitThrAbove(entry) == Max(0, entry + ExitMargin)

\* App.tsx 1360: exitThr = Math.max(0, sensitivity - 0.10)
ExitThr(entry) == Max(0, entry - ExitMargin)

\* SustainStep without the cap at 10
SustainStepNoCap(sus, sum, len, entry) ==
  IF sum > entry * len THEN sus + 1
  ELSE IF sum < ExitThr(entry) * len THEN Max(0, sus - 1)
  ELSE sus

\* App.tsx 1359-1365: the sustain counter; the mean is sum / len
SustainStep(sus, sum, len, entry) ==
  LET exitThr == ExitThr(entry) IN
  IF sum > entry * len THEN Min(SustainMax, sus + 1)
  ELSE IF sum < exitThr * len THEN Max(0, sus - 1)
  ELSE sus

\* ActiveStep activating one frame late (sustain > 3)
ActiveStepLate(act, hld, sus) ==
  LET a1 == IF ~act /\ sus > SustainOn THEN TRUE ELSE act
      h1 == IF ~act /\ sus > SustainOn THEN HoldFrames ELSE hld
  IN IF a1 /\ sus = 0
     THEN IF h1 > 0 THEN [active |-> a1, hold |-> h1 - 1]
          ELSE [active |-> FALSE, hold |-> h1]
     ELSE [active |-> a1, hold |-> h1]

\* ActiveStep turning off as soon as the countdown reaches 0
ActiveStepEager(act, hld, sus) ==
  LET a1 == IF ~act /\ sus >= SustainOn THEN TRUE ELSE act
      h1 == IF ~act /\ sus >= SustainOn THEN HoldFrames ELSE hld
  IN IF a1 /\ sus = 0
     THEN IF h1 > 1 THEN [active |-> a1, hold |-> h1 - 1]
          ELSE [active |-> FALSE, hold |-> 0]
     ELSE [active |-> a1, hold |-> h1]

\* ActiveStep that does not arm the hold on activation
ActiveStepNoHold(act, hld, sus) ==
  LET a1 == IF ~act /\ sus >= SustainOn THEN TRUE ELSE act
  IN IF a1 /\ sus = 0
     THEN IF hld > 0 THEN [active |-> a1, hold |-> hld - 1]
          ELSE [active |-> FALSE, hold |-> hld]
     ELSE [active |-> a1, hold |-> hld]

\* the ticks below exit that release any alarm: the sustain counter from
\* its cap to 0, then the hold
ReleaseTicks == SustainMax + HoldFrames

\* App.tsx 1366-1370: activation, then hold countdown / deactivation
ActiveStep(act, hld, sus) ==
  LET a1 == IF ~act /\ sus >= SustainOn THEN TRUE ELSE act
      h1 == IF ~act /\ sus >= SustainOn THEN HoldFrames ELSE hld
  IN IF a1 /\ sus = 0
     THEN IF h1 > 0 THEN [active |-> a1, hold |-> h1 - 1]
          ELSE [active |-> FALSE, hold |-> h1]
     ELSE [active |-> a1, hold |-> h1]

\* Prune that removes nothing
PruneNone(ra, t) == ra

\* App.tsx 1407: keep only the activations of the last 10 s
Prune(ra, t) == SelectSeq(ra, LAMBDA x : t - x <= RateWindowMs)

\* Nudged without the upper clamp
NudgedOpen(sens, count) ==
  Max(SensMin, sens - (count - TargetEdges) * StepPerEdge)

\* App.tsx 1408-1415: s = clamp(sensitivity - (rate - 0.2) * 0.0025)
Nudged(sens, count) ==
  Max(SensMin, Min(SensMax, sens - (count - TargetEdges) * StepPerEdge))

\* Applies with no dead band: every non-zero nudge is applied
AppliesAny(s, sens, tie) == Abs(s - sens) > 0

\* App.tsx 1416: Math.abs(s - sensitivity) > 0.0005.  A difference of
\* exactly 0.0005 is decided by the rounding of the double arithmetic
\* (0.2005 - 0.2 > 0.0005 in IEEE doubles): tie is that outcome.
Applies(s, sens, tie) ==
  Abs(s - sens) > ApplyEps \/ (Abs(s - sens) = ApplyEps /\ tie)

Region(sum, len, entry) ==
  IF sum > entry * len THEN "A"
  ELSE IF sum < ExitThr(entry) * len THEN "B" ELSE "D"

\* ---------------------------------------------------------------- analyze
\* One animation frame: App.tsx 1299-1439.  decodable = readyState >= 2 and
\* a 2d context; norm = diff / (w*h*3*255); (bx, by) = the max block.
Analyze(decodable, norm, bx, by, tie) ==
  /\ rafPending
  /\ UNCHANGED <<analyzing, hasMedia, alertsEnabled, aiReady, playActive>>
  /\ UNCHANGED <<prevTime, detectorRef, videoVars, now, needReset, stopped>>
  /\ IF ~decodable THEN
       /\ Quiet("tickSkip")
       /\ UNCHANGED <<sensitivity, closureVars, coreVars, graphVars, loads, dets, histVars>>
     ELSE IF ~lastFrame THEN
       /\ Quiet("tickFirst")
       /\ lastFrame' = TRUE
       /\ UNCHANGED <<sensitivity, cSens, cAlerts, rafPending, coreVars, graphVars,
                      loads, dets, histVars>>
     ELSE IF warmup < WarmupFrames THEN
       /\ Quiet("tickWarmup")
       /\ warmup' = warmup + 1
       /\ UNCHANGED <<sensitivity, closureVars, scoreBuf, lastFire, smVars, boxEma,
                      recentActivations, prevActive, recentScores, graphVars,
                      loads, dets, histVars>>
     ELSE
       LET score == RawScore(norm)
           buf == PushCap(scoreBuf, score, ScoreBufCap)
           sum == SumSeq(buf)
           len == Len(buf)
           sus == SustainStep(sustain, sum, len, cSens)
           st == ActiveStep(active, hold, sus)
           ra1 == IF autoTune THEN Prune(recentActivations, now) ELSE recentActivations
           s == Nudged(cSens, Len(ra1))
           sens1 == IF autoTune /\ Applies(s, cSens, tie) THEN s ELSE sensitivity
           edge == ~prevActive /\ st.active
           ra2 == IF edge THEN PushCap(ra1, now, RateCap) ELSE ra1
           fire == /\ cAlerts /\ st.active /\ sum > (cSens + DiffMargin) * len
                   /\ now - lastFire > DiffCooldown
           sensChanged == sens1 # sensitivity
           reg == Region(sum, len, cSens)
           rose == ~active /\ st.active
       IN
       /\ warmup' = warmup
       /\ scoreBuf' = buf
       /\ aiThreshold' = cSens
       /\ valuesLen' = BumpLen(valuesLen, ValuesCap)
       /\ recentScores' = {t \in recentScores \cup {now} : ~(t < now - RecentWindowMs)}
       /\ sustain' = sus
       /\ active' = st.active
       /\ hold' = st.hold
       /\ boxEma' = BoxStep(boxEma, st.active, norm, bx, by)
       /\ sensitivity' = sens1
       /\ actLen' = BumpLen(actLen, ActCap)
       /\ recentActivations' = ra2
       /\ prevActive' = st.active
       /\ lastFire' = IF fire THEN now ELSE lastFire
       /\ AnalyzeEffect(fire, TRUE)
       /\ dets' = InitEffectDets(dets, detectorRef, sensChanged, analyzing, hasMedia)
       /\ loads' = InitEffectLoads(loads, detectorRef, sensChanged, analyzing, hasMedia,
                                   sens1, alertsEnabled)
       /\ op' = "tick" /\ cbStale' = FALSE
       /\ firedSrc' = IF fire THEN "diff" ELSE "none"
       /\ Notify(fire)
       /\ avgSum' = sum /\ avgLen' = len
       /\ lastDiffFire' = IF fire THEN now ELSE lastDiffFire
       /\ lastEmbFire' = lastEmbFire
       /\ fedRun' = IF fedRun \in 0..2 /\ sum = 25000 * len /\ cSens = InitSensitivity
                    THEN fedRun + 1 ELSE -1
       /\ aboveRun' = IF reg = "A" THEN Min(SustainOn, aboveRun + 1) ELSE 0
       /\ holdRun' = IF active /\ hold = HoldFrames /\ sustain > 0 /\ sus = 0 THEN 0
                     ELSE IF holdRun \in 0..(HoldFrames - 1) /\ reg = "B" THEN holdRun + 1
                     ELSE -1
       /\ zeroRun' = IF (active \/ rose) /\ sus = 0 THEN zeroRun + 1 ELSE 0
       /\ zeroTotal' = IF rose THEN 0
                       ELSE IF active /\ sus = 0 THEN zeroTotal + 1 ELSE zeroTotal

\* ---------------------------------------------------------------- reset
\* resetForLoop, App.tsx 1479-1497, on the refs; the detector restart is
\* RestartDetector.  The ai-active event it dispatches reaches DpcmGraph.
ResetForLoop ==
  /\ warmup' = 0 /\ scoreBuf' = <<>> /\ lastFire' = 0
  /\ sustain' = 0 /\ active' = FALSE /\ hold' = 0 /\ boxEma' = NoBox
  /\ recentActivations' = <<>> /\ recentScores' = {}
  /\ prevActive' = prevActive
  /\ actLen' = BumpLen(actLen, ActCap)
  /\ UNCHANGED <<aiThreshold, valuesLen>>
  /\ needReset' = FALSE
  /\ fedRun' = 0 /\ aboveRun' = 0 /\ holdRun' = -1 /\ zeroRun' = 0 /\ zeroTotal' = 0

\* ---------------------------------------------------------------- handlers
\* file input onChange, App.tsx 1534-1542
Upload ==
  LET changed == ~hasMedia \/ ~analyzing IN
  /\ srcSet' = TRUE /\ pos' = 0 /\ paused' = FALSE /\ pendingPlay' = TRUE
  /\ UNCHANGED <<pendingPause, pendingSeeking>>
  /\ hasMedia' = TRUE /\ analyzing' = TRUE /\ playActive' = TRUE
  /\ UNCHANGED <<alertsEnabled, sensitivity, aiReady>>
  /\ AnalyzeEffect(changed \/ ~playActive, lastFrame)
  /\ dets' = InitEffectDets(dets, detectorRef, changed, TRUE, TRUE)
  /\ loads' = InitEffectLoads(loads, detectorRef, changed, TRUE, TRUE,
                              sensitivity, alertsEnabled)
  /\ UNCHANGED <<coreVars, prevTime, detectorRef, graphVars, now, needReset, histVars>>
  /\ stopped' = FALSE
  /\ Quiet("upload")

\* Play / Pause button, App.tsx 1517
PlayPauseClick ==
  /\ srcSet
  /\ IF paused
     THEN paused' = FALSE /\ pendingPlay' = TRUE /\ pendingPause' = pendingPause
          /\ stopped' = FALSE
     ELSE paused' = TRUE /\ pendingPause' = TRUE /\ pendingPlay' = pendingPlay
          /\ stopped' = stopped
  /\ UNCHANGED <<srcSet, pos, pendingSeeking>>
  /\ UNCHANGED <<reactVars, closureVars, coreVars, prevTime, graphVars, detVars,
                 now, needReset, histVars>>
  /\ Quiet("click")

\* video onPlay, App.tsx 1507
OnPlay ==
  LET changed == ~analyzing IN
  /\ pendingPlay
  /\ pendingPlay' = FALSE
  /\ UNCHANGED <<srcSet, paused, pos, pendingPause, pendingSeeking>>
  /\ analyzing' = TRUE /\ playActive' = TRUE
  /\ UNCHANGED <<hasMedia, alertsEnabled, sensitivity, aiReady>>
  /\ ResetForLoop
  /\ prevTime' = pos
  /\ AnalyzeEffect(changed \/ ~playActive, lastFrame)
  /\ dets' = InitEffectDets(RestartDetector(dets, detectorRef), detectorRef,
                            changed, TRUE, hasMedia)
  /\ loads' = InitEffectLoads(loads, detectorRef, changed, TRUE, hasMedia,
                              sensitivity, alertsEnabled)
  /\ UNCHANGED <<detectorRef, now, stopped>>
  /\ Quiet("play")

\* video onPause, App.tsx 1507
OnPause ==
  /\ pendingPause
  /\ pendingPause' = FALSE
  /\ UNCHANGED <<srcSet, paused, pos, pendingPlay, pendingSeeking>>
  /\ playActive' = FALSE
  /\ UNCHANGED <<analyzing, hasMedia, alertsEnabled, sensitivity, aiReady>>
  /\ AnalyzeEffect(playActive, lastFrame)
  /\ UNCHANGED <<coreVars, prevTime, graphVars, detVars, now, needReset, stopped, histVars>>
  /\ Quiet("pause")

\* Stop button, App.tsx 1518: v.pause(); v.currentTime = 0; setAnalyzing(false);
\* setHasMedia(false); onPlayChange(false)
Stop ==
  LET changed == analyzing \/ hasMedia IN
  /\ paused' = TRUE /\ pendingPause' = (pendingPause \/ ~paused)
  /\ pos' = 0 /\ pendingSeeking' = (pendingSeeking \/ srcSet)
  /\ UNCHANGED <<srcSet, pendingPlay>>
  /\ analyzing' = FALSE /\ hasMedia' = FALSE /\ playActive' = FALSE
  /\ UNCHANGED <<alertsEnabled, sensitivity, aiReady>>
  /\ AnalyzeEffect(changed \/ playActive, lastFrame)
  /\ dets' = InitEffectDets(dets, detectorRef, changed, FALSE, FALSE)
  /\ UNCHANGED <<loads, detectorRef>>
  /\ UNCHANGED <<coreVars, prevTime, graphVars, now, histVars>>
  /\ needReset' = TRUE /\ stopped' = TRUE
  /\ Quiet("stop")

\* Playback moves the position on; with the loop attribute the end of the
\* media seeks back to the start (a seeking notification follows).
PlayAdvance ==
  /\ srcSet /\ ~paused
  /\ IF pos < Duration
     THEN pos' = pos + 1 /\ UNCHANGED <<pendingSeeking, needReset>>
     ELSE pos' = 0 /\ pendingSeeking' = TRUE /\ needReset' = TRUE
  /\ UNCHANGED <<srcSet, paused, pendingPlay, pendingPause>>
  /\ UNCHANGED <<reactVars, closureVars, coreVars, prevTime, graphVars, detVars,
                 now, stopped, histVars>>
  /\ Quiet("advance")

\* App.tsx 1509, 1512: t + 0.1 < prevTimeRef.current, currentTime + 0.05 <
\* prevTimeRef.current (positions are whole units of more than 0.1 s, so
\* both tests are pos < prevTime)
LoopedBack == pos < prevTime

\* video onTimeUpdate, App.tsx 1509-1512
OnTimeUpdate ==
  /\ srcSet
  /\ IF LoopedBack
     THEN ResetForLoop /\ dets' = RestartDetector(dets, detectorRef)
     ELSE UNCHANGED <<coreVars, graphVars, dets, needReset, histVars>>
  /\ prevTime' = pos
  /\ UNCHANGED <<reactVars, closureVars, loads, detectorRef, videoVars, now, stopped>>
  /\ Quiet("timeupdate")

\* video onSeeking, App.tsx 1512
OnSeeking ==
  /\ pendingSeeking
  /\ pendingSeeking' = FALSE
  /\ IF LoopedBack
     THEN ResetForLoop /\ dets' = RestartDetector(dets, detectorRef)
     ELSE UNCHANGED <<coreVars, graphVars, dets, needReset, histVars>>
  /\ UNCHANGED <<srcSet, paused, pos, pendingPlay, pendingPause>>
  /\ UNCHANGED <<reactVars, closureVars, prevTime, loads, detectorRef, now, stopped>>
  /\ Quiet("seeking")

\* Alerts button, App.tsx 1519
ToggleAlerts ==
  /\ alertsEnabled' = ~alertsEnabled
  /\ UNCHANGED <<analyzing, hasMedia, sensitivity, aiReady, playActive>>
  /\ UNCHANGED <<closureVars, coreVars, prevTime, graphVars, detVars, videoVars,
                 now, needReset, stopped, histVars>>
  /\ Quiet("alerts")

\* App renders again for a reason of its own (telemetry, geolocation, zoom):
\* the inline onIrregularity prop is a new function, the analyze effect re-runs
ParentRender ==
  /\ UNCHANGED reactVars
  /\ AnalyzeEffect(TRUE, lastFrame)
  /\ UNCHANGED <<coreVars, prevTime, graphVars, detVars, videoVars, now,
                 needReset, stopped, histVars>>
  /\ Quiet("render")

\* time passes
Elapse ==
  /\ now' = now + TimeStep
  /\ UNCHANGED <<reactVars, closureVars, coreVars, prevTime, graphVars, detVars,
                 videoVars, needReset, stopped, histVars>>
  /\ Quiet("elapse")

\* ---------------------------------------------------------------- embedding path
RemoveAt(s, i) == SubSeq(s, 1, i - 1) \o SubSeq(s, i + 1, Len(s))

\* createVideoAnomalyDetector resolves (ok = the model loaded) and maybeInit
\* continues: detectorRef.current = d; setAiReady(d.isReady()); start()
LoadDone(i, ok) ==
  /\ i \in 1..Len(loads)
  /\ Len(dets) < MaxDets
  /\ detectorRef' = Len(dets) + 1
  /\ dets' = StartRef(Append(dets, NewDetector(ok, loads[i])), Len(dets) + 1)
  /\ loads' = RemoveAt(loads, i)
  /\ aiReady' = ok
  /\ UNCHANGED <<analyzing, hasMedia, alertsEnabled, sensitivity, playActive>>
  /\ UNCHANGED <<closureVars, coreVars, prevTime, graphVars, videoVars, now,
                 needReset, stopped, histVars>>
  /\ Quiet("loaded")

\* a timeout set by step's finally fires and calls step()
TimerFire(i, named) ==
  /\ i \in 1..Len(dets)
  /\ IF named
     THEN /\ dets[i].timerLive
          /\ dets' = [dets EXCEPT ![i] = StepBegin([@ EXCEPT !.timerLive = FALSE])]
     ELSE /\ dets[i].orphans > 0
          /\ dets' = [dets EXCEPT ![i] = StepBegin([@ EXCEPT !.orphans = @ - 1])]
  /\ UNCHANGED <<reactVars, closureVars, coreVars, prevTime, graphVars, loads,
                 detectorRef, videoVars, now, needReset, stopped, histVars>>
  /\ Quiet("timer")

\* step() after its await, ai.ts 53-83, with the onScore callback of
\* App.tsx 1455-1468.  ok = the inference did not throw; dist = the cosine
\* distance of the embedding to the running mean; old = the step was begun
\* before the latest resetForLoop.
StepDone(i, old, ok, dist) ==
  /\ i \in 1..Len(dets)
  /\ dets[i].inflight > 0
  /\ IF old THEN dets[i].stale > 0 ELSE dets[i].inflight > dets[i].stale
  /\ LET d == dets[i]
         d1 == [d EXCEPT !.inflight = @ - 1,
                         !.stale = IF old THEN @ - 1 ELSE @,
                         !.hasMean = IF ok THEN TRUE ELSE @]
         score == IF d.hasMean THEN dist ELSE 0
         scored == ok /\ ~(warmup < WarmupFrames)
         buf == PushCap(scoreBuf, score, ScoreBufCap)
         sum == SumSeq(buf)
         len == Len(buf)
         fire == /\ scored /\ d.alerts /\ sum > (d.sens + EmbMargin) * len
                 /\ now - lastFire > EmbCooldown
     IN
     /\ dets' = [dets EXCEPT ![i] = StepFinally(d1)]
     /\ warmup' = IF ok /\ warmup < WarmupFrames THEN warmup + 1 ELSE warmup
     /\ scoreBuf' = IF scored THEN buf ELSE scoreBuf
     /\ lastFire' = IF fire THEN now ELSE lastFire
     /\ UNCHANGED reactVars
     /\ AnalyzeEffect(fire, lastFrame)
     /\ firedSrc' = IF fire THEN "emb" ELSE "none"
     /\ Notify(fire)
     /\ avgSum' = IF scored THEN sum ELSE 0
     /\ avgLen' = IF scored THEN len ELSE 0
     /\ lastEmbFire' = IF fire THEN now ELSE lastEmbFire
     /\ lastDiffFire' = lastDiffFire
     /\ cbStale' = (ok /\ old)
     /\ op' = IF ok THEN "score" ELSE "stepFailed"
  /\ UNCHANGED <<smVars, boxEma, recentActivations, prevActive, recentScores>>
  /\ UNCHANGED <<prevTime, graphVars, loads, detectorRef, videoVars, now,
                 needReset, stopped, histVars>>

\* ---------------------------------------------------------------- aggregator socket
\* What JSON.parse makes of m.data: parses = it does not throw; truthy and
\* object = the tests "parsed" and "typeof parsed === 'object'"; type = the
\* value's type property ("" = undefined or not a string).
Messages ==
  { [kind |-> "malformed", parses |-> FALSE, truthy |-> FALSE, object |-> FALSE, type |-> ""],
    [kind |-> "null", parses |-> TRUE, truthy |-> FALSE, object |-> TRUE, type |-> ""],
    [kind |-> "number", parses |-> TRUE, truthy |-> TRUE, object |-> FALSE, type |-> ""],
    [kind |-> "array", parses |-> TRUE, truthy |-> TRUE, object |-> TRUE, type |-> ""],
    [kind |-> "untyped", parses |-> TRUE, truthy |-> TRUE, object |-> TRUE, type |-> ""],
    [kind |-> "foreign", parses |-> TRUE, truthy |-> TRUE, object |-> TRUE, type |-> "heartbeat"],
    [kind |-> "telemetry", parses |-> TRUE, truthy |-> TRUE, object |-> TRUE, type |-> "telemetry"],
    [kind |-> "defect", parses |-> TRUE, truthy |-> TRUE, object |-> TRUE, type |-> "defect"] }

\* Accepts without the test of the type property
AcceptsObject(m) == m.parses /\ m.truthy /\ m.object

\* ws.ts 16-23: the try around JSON.parse and the test before onEvent
Accepts(m) ==
  m.parses /\ m.truthy /\ m.object /\ m.type \in {"telemetry", "defect"}

\* Handled that ignores the camera and the playback
HandledAlways(m) == Accepts(m) /\ m.type = "defect"

\* App.tsx 127-129: a defect event is handled unless
\* camEnabledRef.current || !playActiveRef.current
Handled(m) ==
  Accepts(m) /\ m.type = "defect" /\ ~(camEnabled \/ ~playActive)

\* ws.onmessage, ws.ts 15-24, with App's callback (App.tsx 121-141): a
\* telemetry event sets App state; a handled defect event sets lastDefect,
\* flashes, beeps and appends to the notification log (no toast); App then
\* renders, and so does a mounted player.
WsMessage(m) ==
  /\ wsOpen
  /\ wsLast' = m.kind
  /\ UNCHANGED reactVars
  /\ IF Accepts(m)
     THEN /\ Len(wsEvents) < MaxEvents
          /\ wsEvents' = Append(wsEvents, m.type)
          /\ AnalyzeEffect(~camEnabled /\ (m.type = "telemetry" \/ Handled(m)),
                           lastFrame)
     ELSE UNCHANGED <<wsEvents, closureVars>>
  /\ lastDefect' = IF Handled(m) THEN Len(wsEvents') ELSE lastDefect
  /\ notifLen' = IF Handled(m) THEN PrependCap(notifLen, NotifCap) ELSE notifLen
  /\ toastLen' = toastLen
  /\ UNCHANGED <<wsOpen, wsReopen, disconnected, steps, belowRun, appVars>>
  /\ UNCHANGED <<coreVars, prevTime, graphVars, detVars, videoVars, now,
                 needReset, stopped, histVars>>
  /\ QuietOp("wsMessage")

\* the function returned by connectAggregator, ws.ts 31: ws?.close().  The
\* socket delivers nothing more and its close event runs onclose, ws.ts 28,
\* as for any other close; on a socket already closed close() does nothing.
WsDisconnect ==
  /\ ~disconnected
  /\ disconnected' = TRUE
  /\ wsOpen' = FALSE /\ wsReopen' = TRUE
  /\ UNCHANGED <<wsEvents, wsLast, steps, belowRun, appVars>>
  /\ UNCHANGED <<reactVars, closureVars, coreVars, prevTime, graphVars, detVars,
                 videoVars, now, needReset, stopped, histVars>>
  /\ Quiet("wsDisconnect")

\* ws.onclose, ws.ts 28: setTimeout(open, 1000)
WsClose ==
  /\ wsOpen
  /\ wsOpen' = FALSE /\ wsReopen' = TRUE
  /\ UNCHANGED <<wsEvents, wsLast, disconnected, steps, belowRun, appVars>>
  /\ UNCHANGED <<reactVars, closureVars, coreVars, prevTime, graphVars, detVars,
                 videoVars, now, needReset, stopped, histVars>>
  /\ Quiet("wsClose")

\* the reconnect timeout fires: open(), ws.ts 10-11, and the socket connects
WsReopen ==
  /\ wsReopen
  /\ wsOpen' = TRUE /\ wsReopen' = FALSE
  /\ UNCHANGED <<wsEvents, wsLast, disconnected, steps, belowRun, appVars>>
  /\ UNCHANGED <<reactVars, closureVars, coreVars, prevTime, graphVars, detVars,
                 videoVars, now, needReset, stopped, histVars>>
  /\ Quiet("wsOpen")

\* ---------------------------------------------------------------- application
\* Header onCamClick, App.tsx 337-343: setCamEnabled(!prev).  With the camera
\* on App renders CameraView in place of the two upload players (lines
\* 352-404): the players are unmounted, their effects' cleanups cancel the
\* pending frame and stop the detector of detectorRef, their state and refs
\* are discarded; with the camera off again they are mounted anew.  App's
\* own state (playActive, the log, the toasts) and DpcmGraph live on.  What
\* a load or an inference of a discarded player still does is not followed.
CamClick ==
  /\ camEnabled' = ~camEnabled
  /\ rearPlaying' = FALSE
  /\ analyzing' = FALSE /\ hasMedia' = FALSE /\ alertsEnabled' = TRUE
  /\ sensitivity' = InitSensitivity /\ aiReady' = FALSE
  /\ playActive' = playActive
  /\ cSens' = InitSensitivity /\ cAlerts' = TRUE /\ lastFrame' = FALSE
  /\ rafPending' = FALSE
  /\ warmup' = 0 /\ scoreBuf' = <<>> /\ lastFire' = 0
  /\ sustain' = 0 /\ active' = FALSE /\ hold' = 0 /\ boxEma' = NoBox
  /\ recentActivations' = <<>> /\ prevActive' = FALSE /\ recentScores' = {}
  /\ prevTime' = 0 /\ detectorRef' = 0 /\ loads' = <<>> /\ dets' = <<>>
  /\ srcSet' = FALSE /\ paused' = TRUE /\ pos' = 0
  /\ pendingPlay' = FALSE /\ pendingPause' = FALSE /\ pendingSeeking' = FALSE
  /\ needReset' = FALSE /\ stopped' = FALSE
  /\ fedRun' = 0 /\ aboveRun' = 0 /\ holdRun' = -1 /\ zeroRun' = 0
  /\ zeroTotal' = 0
  /\ UNCHANGED <<graphVars, now, steps, belowRun, wsVars>>
  /\ Quiet("camera")

\* The rear player starts playing (file input onChange, App.tsx 1534-1542, or
\* video onPlay, line 1507): onPlayChange(true), which is App's
\* setPlayActive (line 389); App renders if playActive changed.
RearPlay ==
  /\ ~camEnabled
  /\ rearPlaying' = TRUE /\ playActive' = TRUE
  /\ UNCHANGED <<analyzing, hasMedia, alertsEnabled, sensitivity, aiReady>>
  /\ AnalyzeEffect(~playActive, lastFrame)
  /\ UNCHANGED <<camEnabled, steps, belowRun, wsVars>>
  /\ UNCHANGED <<coreVars, prevTime, graphVars, detVars, videoVars, now,
                 needReset, stopped, histVars>>
  /\ Quiet("rearPlay")

\* The rear player's Stop button, App.tsx 1518 (v.pause(); onPlayChange(false)),
\* whether or not it was playing
RearStop ==
  /\ ~camEnabled
  /\ rearPlaying' = FALSE /\ playActive' = FALSE
  /\ UNCHANGED <<analyzing, hasMedia, alertsEnabled, sensitivity, aiReady>>
  /\ AnalyzeEffect(playActive, lastFrame)
  /\ UNCHANGED <<camEnabled, steps, belowRun, wsVars>>
  /\ UNCHANGED <<coreVars, prevTime, graphVars, detVars, videoVars, now,
                 needReset, stopped, histVars>>
  /\ Quiet("rearStop")

\* the auto-dismiss timeout of a toast, App.tsx 320: the toast is removed
\* and App renders
ToastExpire ==
  /\ toastLen > 0
  /\ toastLen' = toastLen - 1
  /\ UNCHANGED <<notifLen, lastDefect>>
  /\ UNCHANGED reactVars
  /\ AnalyzeEffect(~camEnabled, lastFrame)
  /\ UNCHANGED <<steps, belowRun, wsVars, appVars>>
  /\ UNCHANGED <<coreVars, prevTime, graphVars, detVars, videoVars, now,
                 needReset, stopped, histVars>>
  /\ QuietOp("toast")

\* ---------------------------------------------------------------- specifications
Bounded ==
  /\ Len(loads) <= MaxLoads
  /\ Len(recentActivations) <= MaxEdges
  /\ \A i \in 1..Len(dets) :
       dets[i].inflight <= MaxInflight /\ dets[i].orphans <= MaxOrphans

NormsSM == {0, 6250}

\* the state machine under every sequence of frames and restarts
Closed == Bounded' /\ UNCHANGED <<steps, belowRun, wsVars, appVars>>

NextSM ==
  \/ Upload /\ Closed
  \/ OnPlay /\ Closed
  \/ \E n \in NormsSM : Analyze(TRUE, n, 8, 8, FALSE) /\ Closed

SpecSM == InitWarm /\ [][NextSM]_vars

\* The same with the ticks below exit counted: belowRun is the number of
\* scored ticks in a row whose mean (avgSum / avgLen) was below exit; a
\* reset (the play notification) restarts the count.
Counted ==
  /\ Bounded' /\ UNCHANGED <<steps, wsVars, appVars>>
  /\ belowRun' = IF op' = "tick"
                 THEN IF Region(avgSum', avgLen', cSens) = "B"
                      THEN Min(ReleaseTicks, belowRun + 1) ELSE 0
                 ELSE IF op' = "play" THEN 0 ELSE belowRun

NextRelease ==
  \/ ~srcSet /\ Upload /\ Counted
  \/ OnPlay /\ Counted
  \/ \E n \in NormsSM : Analyze(TRUE, n, 8, 8, FALSE) /\ Counted

SpecRelease == InitWarm /\ [][NextRelease]_vars

\* inputs of the whole pipeline: one frame difference (score 0.25) and one
\* cosine distance (0.25)
NormsPipe == {6250}

DistsPipe == {25000}

\* at most MaxStepsPipe handlers run
Budget ==
  /\ steps < MaxStepsPipe /\ steps' = steps + 1
  /\ UNCHANGED <<belowRun, wsVars, appVars>>

\* a person clicks long after the video element delivered the notifications
\* it had queued
Settled == ~pendingPlay /\ ~pendingPause /\ ~pendingSeeking

\* a position lasts at least the 250 ms within which a playing element
\* delivers a timeupdate notification: playback moves on after it
Reported == ~pendingPlay /\ prevTime = pos

\* The whole pipeline: the buttons, the video element's notifications, the
\* animation frames, the detector's load, timers and inferences and the
\* clock, in every order.  A frame of a new source is decodable only after
\* the play notification: play() queues it before the load delivers data.
Next ==
  \/ Settled /\ Upload /\ Budget
  \/ Settled /\ PlayPauseClick /\ Budget
  \/ OnPlay /\ Budget
  \/ OnPause /\ Budget
  \/ Settled /\ Stop /\ Budget
  \/ Reported /\ PlayAdvance /\ Budget
  \/ OnTimeUpdate /\ Budget
  \/ OnSeeking /\ Budget
  \/ Settled /\ ToggleAlerts /\ Budget
  \/ ParentRender /\ Budget
  \/ Elapse /\ Budget
  \/ \E dec \in BOOLEAN, n \in NormsPipe :
       (dec => ~pendingPlay) /\ Analyze(dec, n, 8, 8, FALSE) /\ Budget
  \/ \E i \in 1..MaxLoads, ok \in BOOLEAN : LoadDone(i, ok) /\ Budget
  \/ \E i \in 1..MaxDets, named \in BOOLEAN : TimerFire(i, named) /\ Budget
  \/ \E i \in 1..MaxDets, old \in BOOLEAN, ok \in BOOLEAN, d \in DistsPipe :
       StepDone(i, old, ok, d) /\ Budget

Spec == InitWarm /\ [][Next]_vars

\* The two detection paths of one playback: frames, the detector's load,
\* timers and inferences, and the clock, until MaxElapse time steps passed.
NextFire ==
  \/ ~srcSet /\ Upload /\ Closed
  \/ OnPlay /\ Closed
  \/ now < StartTime + MaxElapse * TimeStep /\ Elapse /\ Closed
  \/ \E n \in NormsPipe : ~pendingPlay /\ Analyze(TRUE, n, 8, 8, FALSE) /\ Closed
  \/ \E i \in 1..MaxLoads : LoadDone(i, TRUE) /\ Closed
  \/ \E i \in 1..MaxDets, named \in BOOLEAN : TimerFire(i, named) /\ Closed
  \/ \E i \in 1..MaxDets, old \in BOOLEAN, d \in DistsPipe :
       StepDone(i, old, TRUE, d) /\ Closed

SpecFire == InitWarm /\ [][NextFire]_vars

\* Looped playback of an uploaded clip: the frames, the position and its
\* notifications, and the clock, until MaxElapse time steps passed.
NextLoop ==
  \/ Settled /\ Upload /\ Closed
  \/ OnPlay /\ Closed
  \/ Reported /\ PlayAdvance /\ Closed
  \/ OnTimeUpdate /\ Closed
  \/ OnSeeking /\ Closed
  \/ now < StartTime + MaxElapse * TimeStep /\ Elapse /\ Closed
  \/ \E n \in NormsPipe : ~pendingPlay /\ Analyze(TRUE, n, 8, 8, FALSE) /\ Closed

SpecLoop == InitWarm /\ [][NextLoop]_vars

\* The controller on one uploaded still picture with the model unavailable:
\* frames of score 0, renders of App that renew the analyze closure, and the
\* rounding of the double comparison of App.tsx 1416 in both directions.
NextCtl ==
  \/ ~srcSet /\ Upload /\ Closed
  \/ OnPlay /\ Closed
  \/ ParentRender /\ Closed
  \/ \E i \in 1..MaxLoads : LoadDone(i, FALSE) /\ Closed
  \/ \E tie \in BOOLEAN : ~pendingPlay /\ Analyze(TRUE, 0, 0, 0, tie) /\ Closed

SpecCtl == InitWarm /\ [][NextCtl]_vars

\* cosine distances 1 - cos: 0 (same direction) and 1.5 (cos = -0.5)
DistsWide == {0, 150000}

\* The embedding path alone: load, timers and inferences whose embedding
\* may point anywhere relative to the running mean.
NextEmb ==
  \/ Settled /\ Upload /\ Closed
  \/ OnPlay /\ Closed
  \/ \E i \in 1..MaxLoads : LoadDone(i, TRUE) /\ Closed
  \/ \E i \in 1..MaxDets, named \in BOOLEAN : TimerFire(i, named) /\ Closed
  \/ \E i \in 1..MaxDets, old \in BOOLEAN, d \in DistsWide :
       StepDone(i, old, TRUE, d) /\ Closed

SpecEmb == InitWarm /\ [][NextEmb]_vars

\* playback of one upload on a freshly opened application (DpcmGraph has
\* received nothing yet), the video handlers and the saliency path only
NextCold ==
  \/ Settled /\ Upload /\ Budget
  \/ OnPlay /\ Budget
  \/ Reported /\ PlayAdvance /\ Budget
  \/ OnTimeUpdate /\ Budget
  \/ OnSeeking /\ Budget
  \/ \E n \in NormsPipe : ~pendingPlay /\ Analyze(TRUE, n, 8, 8, FALSE) /\ Budget

SpecCold == Init /\ [][NextCold]_vars

\* a clip that yields one frame every FramePeriod ms, FramesPerWindow frames
\* to a cycle of (about) 10 s: the first BurstFrames frames of a cycle differ
\* strongly from their predecessor (score 1.0), the others not at all
FramePeriod == RateWindowMs \div FramesPerWindow
FrameIndex(t) == ((t - StartTime) \div FramePeriod) % FramesPerWindow
StreamNorm(t) == IF FrameIndex(t) < BurstFrames THEN 25000 ELSE 0

\* the next frame of the clip becomes due
FrameLapse ==
  /\ srcSet /\ ~pendingPlay /\ op # "lapse"
  /\ now + FramePeriod < StartTime + MaxWindows * FramesPerWindow * FramePeriod
  /\ now' = now + FramePeriod
  /\ UNCHANGED <<reactVars, closureVars, coreVars, prevTime, graphVars, detVars,
                 videoVars, needReset, stopped, histVars>>
  /\ Quiet("lapse")

\* the handlers of the player leave the socket alone
Paced == UNCHANGED <<steps, belowRun, wsVars, appVars>>

\* one upload; analyze runs once per frame of the clip
NextRate ==
  \/ ~srcSet /\ Upload /\ Paced
  \/ OnPlay /\ Paced
  \/ FrameLapse /\ Paced
  \/ \E tie \in BOOLEAN :
       op = "lapse" /\ Analyze(TRUE, StreamNorm(now), 8, 8, tie) /\ Paced

SpecRate == InitWarm /\ [][NextRate]_vars

\* One playback with the Alerts button: frames of score 0.25, the button,
\* renders of App and the clock.
NextAlert ==
  \/ ~srcSet /\ Upload /\ Closed
  \/ OnPlay /\ Closed
  \/ Settled /\ ToggleAlerts /\ Closed
  \/ ParentRender /\ Closed
  \/ now < StartTime + MaxElapse * TimeStep /\ Elapse /\ Closed
  \/ \E n \in NormsPipe : ~pendingPlay /\ Analyze(TRUE, n, 8, 8, FALSE) /\ Closed

SpecAlert == InitWarm /\ [][NextAlert]_vars

\* A clip that flashes for PulseBurst frames every PulseCycle frames, played
\* at one frame per PulsePeriod ms: 5 or 6 activation edges per 10 s.
PulseIndex(t) == ((t - StartTime) \div PulsePeriod) % PulseCycle
PulseNorm(t) == IF PulseIndex(t) < PulseBurst THEN 25000 ELSE 0

\* the next frame of that clip becomes due
PulseLapse ==
  /\ srcSet /\ ~pendingPlay /\ op # "lapse"
  /\ now + PulsePeriod <= StartTime + PulseFrames * PulsePeriod
  /\ now' = now + PulsePeriod
  /\ UNCHANGED <<reactVars, closureVars, coreVars, prevTime, graphVars, detVars,
                 videoVars, needReset, stopped, histVars>>
  /\ Quiet("lapse")

\* the smallest number of edges whose nudge exceeds the apply threshold
MinEdgesToApply == TargetEdges + ApplyEps \div StepPerEdge + 1

\* one upload; analyze runs once per frame, in exact arithmetic
NextPulse ==
  \/ ~srcSet /\ Upload /\ Paced
  \/ OnPlay /\ Paced
  \/ PulseLapse /\ Paced
  \/ op = "lapse" /\ Analyze(TRUE, PulseNorm(now), 8, 8, FALSE) /\ Paced

SpecPulse == InitWarm /\ [][NextPulse]_vars

\* A clip that flashes for DenseBurst frames every DenseCycle frames, on a
\* display that runs analyze every DensePeriod ms: more than 120 activation
\* edges in 10 s.  Toasts of the session before may time out before the
\* upload.
DenseIndex(t) == ((t - StartTime) \div DensePeriod) % DenseCycle
DenseNorm(t) == IF DenseIndex(t) < DenseBurst THEN 25000 ELSE 0

\* the next frame of that clip becomes due
DenseLapse ==
  /\ srcSet /\ ~pendingPlay /\ op # "lapse"
  /\ now + DensePeriod <= StartTime + DenseFrames * DensePeriod
  /\ now' = now + DensePeriod
  /\ UNCHANGED <<reactVars, closureVars, coreVars, prevTime, graphVars, detVars,
                 videoVars, needReset, stopped, histVars>>
  /\ Quiet("lapse")

NextDense ==
  \/ ~srcSet /\ ToastExpire
  \/ ~srcSet /\ Upload /\ Paced
  \/ OnPlay /\ Paced
  \/ DenseLapse /\ Paced
  \/ op = "lapse" /\ Analyze(TRUE, DenseNorm(now), 8, 8, FALSE) /\ Paced

SpecDense == InitWarm /\ [][NextDense]_vars

\* The two upload players side by side: the front player in full, of the
\* rear player what App sees of it.
NextApp ==
  \/ ~srcSet /\ Upload /\ Closed
  \/ OnPlay /\ Closed
  \/ PlayPauseClick /\ Closed
  \/ OnPause /\ Closed
  \/ ~pendingPlay /\ Analyze(TRUE, 0, 0, 0, FALSE) /\ Closed
  \/ RearPlay
  \/ RearStop

SpecApp == InitWarm /\ [][NextApp]_vars

\* The overlay box on the clip of SpecRate, whose quiet frames now show a
\* faint change (norm 1e-5, score 0.00004) on every other frame, and whose
\* busiest block lies in one of two columns; when a detection is published
\* the person may upload the clip anew (which resets the pipeline).
BoxNorm(t) ==
  IF FrameIndex(t) < BurstFrames THEN 25000
  ELSE IF FrameIndex(t) % 2 = 0 THEN 1 ELSE 0

BoxXs == {0, 8}

NextBox ==
  \/ (~srcSet \/ firedSrc = "diff") /\ Upload /\ Paced
  \/ OnPlay /\ Paced
  \/ FrameLapse /\ Paced
  \/ \E bx \in BoxXs :
       op = "lapse" /\ Analyze(TRUE, BoxNorm(now), bx, 8, FALSE) /\ Paced

SpecBox == InitWarm /\ [][NextBox]_vars

\* One playback in which a frame may not be decodable and an inference may
\* throw, ended by the Stop button.
NextFail ==
  \/ ~srcSet /\ Upload /\ Closed
  \/ OnPlay /\ Closed
  \/ OnPause /\ Closed
  \/ OnSeeking /\ Closed
  \/ Settled /\ ~stopped /\ Stop /\ Closed
  \/ \E dec \in BOOLEAN, n \in NormsPipe :
       (dec => ~pendingPlay) /\ Analyze(dec, n, 8, 8, FALSE) /\ Closed
  \/ \E i \in 1..MaxLoads : LoadDone(i, TRUE) /\ Closed
  \/ \E i \in 1..MaxDets, named \in BOOLEAN : TimerFire(i, named) /\ Closed
  \/ \E i \in 1..MaxDets, old \in BOOLEAN, ok \in BOOLEAN, d \in DistsPipe :
       StepDone(i, old, ok, d) /\ Closed

SpecFail == InitWarm /\ [][NextFail]_vars

\* The aggregator socket beside one playback of a still picture: messages
\* of every kind, the socket closing and reconnecting.
NextWs ==
  \/ ~camEnabled /\ ~srcSet /\ Upload /\ Closed
  \/ OnPlay /\ Closed
  \/ ~pendingPlay /\ Analyze(TRUE, 0, 0, 0, FALSE) /\ Closed
  \/ \E m \in Messages : WsMessage(m)
  \/ WsClose
  \/ WsReopen
  \/ WsDisconnect
  \/ CamClick

SpecWs == InitWarm /\ [][NextWs]_vars

\* ---------------------------------------------------------------- claims C1-C5
\* C1: one scored frame updates (sustain, hold, active) exactly as the
\* reference rules: score > entry => sustain := min(10, sustain + 1);
\* score < exit => sustain := max(0, sustain - 1); otherwise sustain is
\* unchanged; then !active and sustain >= 3 => active, hold := 8; then active
\* and sustain = 0 => hold := hold - 1 if hold > 0, else inactive.
ThmC1 ==
  [][op' = "tick" =>
       LET entry == cSens
           exit == IF entry - 10000 > 0 THEN entry - 10000 ELSE 0
           s1 == IF avgSum' > entry * avgLen'
                 THEN (IF sustain + 1 < 10 THEN sustain + 1 ELSE 10)
                 ELSE IF avgSum' < exit * avgLen'
                 THEN (IF sustain - 1 > 0 THEN sustain - 1 ELSE 0)
                 ELSE sustain
           on == ~active /\ s1 >= 3
           a1 == active \/ on
           h1 == IF on THEN 8 ELSE hold
       IN /\ sustain' = s1
          /\ active' = (a1 /\ ~(s1 = 0 /\ h1 = 0))
          /\ hold' = IF a1 /\ s1 = 0 /\ h1 > 0 THEN h1 - 1 ELSE h1]_vars

WitC1 ==
  /\ op = "tick" /\ active /\ sustain = 0 /\ hold = 3
  /\ avgSum >= 10000 * avgLen /\ avgSum <= 20000 * avgLen

\* C2: from the initial state with entry 0.20, the smoothed samples
\* 0.25, 0.25, 0.25 leave active false after the first and the second and
\* make it true, with hold = 8, on the third.
ThmC2 ==
  /\ fedRun \in {1, 2} => ~active
  /\ fedRun = 3 => (active /\ hold = 8)

WitC2 == fedRun = 3 /\ op = "tick" /\ active

\* C3: a frame turns active on only if it completes a run of at least 3
\* consecutive frames whose score was above entry.
CexC3 == [][(op' = "tick" /\ ~active /\ active') => aboveRun' >= 3]_vars

\* C4: when sustain reaches 0 with hold = 8, the state stays active for the
\* next 7 frames below exit and turns inactive exactly on the 8th.
ThmC4 ==
  /\ holdRun \in 0..7 => (active /\ hold = 7 - holdRun)
  /\ holdRun = 8 => ~active

WitC4 == holdRun = 8 /\ op = "tick" /\ ~active

\* C5 as claimed: every frame that turns active off is immediately preceded
\* by at least 8 consecutive frames with sustain = 0 while active.
CexC5 == [][(op' = "tick" /\ active /\ ~active') => zeroRun >= 8]_vars

\* C5 as amended: every frame that turns active off is preceded, since the
\* activation, by at least 8 frames (not necessarily consecutive) that left
\* sustain = 0 while active, and it finds sustain = 0 and hold = 0.
ThmC5 ==
  [][(op' = "tick" /\ active /\ ~active') =>
       (zeroTotal >= 8 /\ hold = 0 /\ sustain' = 0)]_vars

WitC5 == op = "tick" /\ ~active /\ zeroTotal = 9 /\ zeroRun \in 1..7

\* ---------------------------------------------------------------- claims C6-C10
\* C6: every handler that runs the reset (the play notification, a
\* timeupdate or seeking notification that finds the position moved back)
\* leaves active = false, sustain = 0, hold = 0, the warm-up counter at 0 and
\* every rolling buffer empty: the score buffer, the activation edges, the
\* recent-score window and the two density windows of the graph.
CexC6 ==
  [][(op' = "play" \/ (op' \in {"timeupdate", "seeking"} /\ LoopedBack)) =>
       /\ ~active' /\ sustain' = 0 /\ hold' = 0 /\ warmup' = 0
       /\ scoreBuf' = <<>> /\ recentActivations' = <<>> /\ recentScores' = {}
       /\ valuesLen' = 0 /\ actLen' = 0]_vars

\* C7: when the handler of a seeking notification (a loop, or the seek the
\* Stop button causes) has run, the activation state is the initial state,
\* warm-up is restarted and the core's buffers are empty.
CexC7 ==
  op = "seeking" =>
    /\ ~active /\ sustain = 0 /\ hold = 0 /\ warmup = 0
    /\ scoreBuf = <<>> /\ recentActivations = <<>> /\ recentScores = {}

CexC9 ==
  stopped =>
    /\ op # "score"
    /\ \A i \in 1..Len(dets) : ~dets[i].running /\ ~dets[i].timerLive

\* C10: a frame that qualifies for a frame-diff detection (alerts on, active,
\* mean above entry + 0.005) more than 5 s after the last frame-diff
\* detection publishes it, and an embedding score that qualifies (alerts on,
\* mean above the threshold + 0.01) more than 8 s after the last embedding
\* detection publishes it, whatever the other path published.
CexC10 ==
  [][/\ (/\ op' = "tick" /\ cAlerts /\ active'
         /\ avgSum' > (cSens + 500) * avgLen'
         /\ now - lastDiffFire > 5000) => firedSrc' = "diff"
     /\ \A i \in 1..Len(dets) :
          (/\ op' = "score" /\ avgLen' > 0
           /\ dets'[i].inflight < dets[i].inflight /\ dets[i].alerts
           /\ avgSum' > (dets[i].sens + 1000) * avgLen'
           /\ now - lastEmbFire > 8000) => firedSrc' = "emb"]_vars

\* ---------------------------------------------------------------- claims C11-C20
\* C11: any two detections published by the frame-diff path are more than
\* 5 s apart, whatever ticks and resets happen between them.
CexC11 ==
  [][(firedSrc' = "diff" /\ lastDiffFire > 0) => now - lastDiffFire > 5000]_vars

CexC13 ==
  /\ \A k \in 1..Len(scoreBuf) : scoreBuf[k] >= 0 /\ scoreBuf[k] <= 100000
  /\ avgSum >= 0 /\ avgSum <= 100000 * avgLen

\* C14: in every reachable state the exit threshold the state machine uses
\* for the entry threshold of its closure is max(0, entry - 0.10), and
\* 0 <= exit <= entry.
ThmC14 ==
  LET e == ExitThr(cSens) IN
  /\ e = (IF cSens - 10000 > 0 THEN cSens - 10000 ELSE 0)
  /\ 0 <= e /\ e <= cSens

WitC14 == op = "tick" /\ cSens > 20000 /\ ExitThr(cSens) = cSens - 10000

CexC17 == [][actLen' # actLen => active' # active]_vars

\* C18: a controller evaluation computes, from the entry threshold it reads
\* and the number cnt of rising edges of the last 10 s,
\* s = clamp(entry - (cnt / 10 - 0.2) * 0.0025, 0.15, 0.6), and the entry
\* threshold becomes s exactly when |s - entry| > 0.0005; otherwise it keeps
\* its value.
CexC18 ==
  [][op' = "tick" =>
       LET cnt == Cardinality({k \in 1..Len(recentActivations) :
                                 now - recentActivations[k] <= 10000})
           raw == cSens - (cnt - 2) * 25
           s == IF raw < 15000 THEN 15000 ELSE IF raw > 60000 THEN 60000 ELSE raw
           d == IF s > cSens THEN s - cSens ELSE cSens - s
       IN sensitivity' = IF d > 50 THEN s ELSE sensitivity]_vars

\* C20: a scored frame publishes, and works with, the entry threshold as the
\* controller last wrote it.
CexC20 == [][op' = "tick" => aiThreshold' = sensitivity]_vars

\* C19 as stated: on a stream with one activation edge per 10 s the rate
\* error seen by the controller is 0 after a bounded number of frames (here:
\* from the last cycle on).
CexC19 ==
  [][(op' = "tick" /\ now >= StartTime + (MaxWindows - 1) * 10000) =>
       Cardinality({k \in 1..Len(recentActivations) :
                      now - recentActivations[k] <= 10000}) = 2]_vars

\* C19 amended: on such a stream, from the first edge on, every controller
\* evaluation finds exactly one edge in its 10 s window (rate error -0.1,
\* which never goes to 0) and leaves the entry threshold as it is: the nudge
\* of 0.00025 is below the apply threshold.
ThmC19 ==
  [][(op' = "tick" /\ recentActivations # <<>>) =>
       /\ Len(Prune(recentActivations, now)) = 1
       /\ Nudged(cSens, 1) = cSens + StepPerEdge
       /\ sensitivity' = sensitivity]_vars

WitC19 ==
  /\ op = "tick" /\ Len(recentActivations) = 2
  /\ recentActivations[2] - recentActivations[1] = 10000
  /\ recentActivations[1] >= StartTime + 2 * 10000

\* ---------------------------------------------------------------- claims C21-C30
\* C21: a detector whose model load failed stays not ready, never runs, never
\* has a timer or an inference pending (so its score callback is never
\* invoked); the failed load sets aiReady to false and touches nothing of
\* the saliency path, whose next frame stays scheduled.
ThmC21 ==
  /\ [](\A i \in 1..Len(dets) :
          ~dets[i].ready =>
            /\ ~dets[i].running /\ ~dets[i].timerLive
            /\ dets[i].inflight = 0 /\ dets[i].orphans = 0)
  /\ [][/\ \A i \in 1..Len(dets) : ~dets[i].ready => ~dets'[i].ready
        /\ (op' = "loaded" /\ ~dets'[Len(dets')].ready) =>
             /\ ~aiReady'
             /\ UNCHANGED <<closureVars, coreVars, graphVars>>]_vars

WitC21 ==
  /\ op = "tick" /\ detectorRef # 0 /\ ~dets[detectorRef].ready
  /\ Len(scoreBuf) >= 2 /\ ~aiReady

\* C22: createVideoAnomalyDetector is called at most once in a session:
\* pending loads and created detectors together never number more than one.
CexC22 == Len(loads) + Len(dets) <= 1

\* C23: the saliency scores and the embedding scores are buffered apart: the
\* buffer whose mean the saliency path publishes holds saliency scores only,
\* so an embedding score callback leaves it as it was.
CexC23 == [][op' = "score" => scoreBuf' = scoreBuf]_vars

\* C24: the six warm-up ticks after a reset are saliency ticks: the warm-up
\* count advances only on a warm-up frame of the saliency path, never on an
\* embedding score callback.
CexC24 == [][warmup' = warmup + 1 => op' = "tickWarmup"]_vars

\* C25: a tick of the frame-diff path publishes a detection (and invokes the
\* alert callback with the tick's mean) only if alerts are enabled, active
\* holds after the tick, the mean exceeds entry + 0.005 and more than 5 s
\* passed since the last detection.
CexC25 ==
  [][firedSrc' = "diff" =>
       /\ alertsEnabled
       /\ active'
       /\ avgSum' > (sensitivity + 500) * avgLen'
       /\ now - lastFire > 5000]_vars

\* C26 as stated: a tick that changes the box while it is set moves each of
\* x, y, w, h by exactly 0.35 * (observed - previous); if the box was unset
\* it becomes the observed box.
CexC26 ==
  [][(op' = "tick" /\ boxEma' # boxEma) =>
       \E bx \in {0, 8} :
         LET o == [x |-> 2 * bx, y |-> 16, w |-> 16, h |-> 16] IN
         IF boxEma = [x |-> -1, y |-> -1, w |-> -1, h |-> -1]
         THEN boxEma' = o
         ELSE \A c \in {"x", "y", "w", "h"} :
                100 * (boxEma'[c] - boxEma[c]) = 35 * (o[c] - boxEma[c])]_vars

\* C26 amended: the first observation while active after a reset sets the
\* box to the observed box; every later one moves each of x, y, w, h by
\* alpha * (observed - previous) rounded to a whole pixel, i.e. to within
\* half a pixel of it.
ThmC26 ==
  [][(op' = "tick" /\ boxEma' # boxEma) =>
       \E bx \in BoxXs :
         LET o == ObservedBox(bx, 8) IN
         IF boxEma = NoBox
         THEN boxEma' = o
         ELSE \A c \in {"x", "y", "w", "h"} :
                LET off == 100 * (boxEma'[c] - boxEma[c])
                             - AlphaPct * (o[c] - boxEma[c])
                IN -50 < off /\ off <= 50]_vars

WitC26 == op = "tick" /\ active /\ boxEma.x = 6 /\ boxEma.y = 16

\* C27: a scored tick that leaves active false, or whose frame shows no
\* difference at all (raw score 0: no max block), leaves the box as it was;
\* the box changes only on a tick that leaves active true, and on a reset.
ThmC27 ==
  [][/\ (op' = "tick" /\ (~active' \/ scoreBuf'[Len(scoreBuf')] = 0)) =>
          boxEma' = boxEma
     /\ boxEma' # boxEma =>
          \/ op' = "tick" /\ active'
          \/ op' = "play" /\ boxEma' = NoBox]_vars

WitC27 ==
  /\ op = "tick" /\ ~active /\ boxEma # NoBox
  /\ scoreBuf[Len(scoreBuf)] > 0

\* C28: a scored tick first drops the timestamps older than 10 s from the
\* rate window and then appends its own time exactly if it turned active
\* from false to true; afterwards every timestamp held is at most 10 s old.
\* Nothing else appends; a reset empties the window.
ThmC28 ==
  [][/\ op' = "tick" =>
          /\ recentActivations' =
               IF ~active /\ active'
               THEN Append(Prune(recentActivations, now), now)
               ELSE Prune(recentActivations, now)
          /\ \A k \in 1..Len(recentActivations') :
               /\ recentActivations'[k] <= now
               /\ now - recentActivations'[k] <= RateWindowMs
     /\ (op' # "tick" /\ recentActivations' # recentActivations) =>
          op' = "play" /\ recentActivations' = <<>>]_vars

WitC28 ==
  /\ op = "tick" /\ recentActivations = <<now>>
  /\ now >= StartTime + 2 * RateWindowMs

\* C29: an animation frame that cannot be read changes nothing and leaves
\* the next frame scheduled; an inference that throws publishes no score,
\* changes nothing of the pipeline or of the running mean, and leaves the
\* detector's next step scheduled if the detector is running (and
\* unscheduled if it was stopped meanwhile).
ThmC29 ==
  [][/\ op' = "tickSkip" =>
          /\ rafPending'
          /\ UNCHANGED <<reactVars, closureVars, coreVars, graphVars, detVars>>
     /\ op' = "stepFailed" =>
          /\ firedSrc' = "none"
          /\ UNCHANGED <<reactVars, closureVars, coreVars, graphVars, loads,
                         detectorRef>>
          /\ \A i \in 1..Len(dets) :
               IF dets'[i].inflight < dets[i].inflight
               THEN /\ dets'[i].hasMean = dets[i].hasMean
                    /\ dets'[i].running = dets[i].running
                    /\ dets'[i].timerLive = (dets[i].running \/ dets[i].timerLive)
               ELSE dets'[i] = dets[i]]_vars

WitC29 ==
  /\ op = "stepFailed" /\ warmup = WarmupFrames /\ Len(scoreBuf) > 0
  /\ \E i \in 1..Len(dets) : dets[i].running /\ dets[i].timerLive /\ dets[i].hasMean

\* C30: a message that does not parse, or whose value is not an object of
\* type 'telemetry' or 'defect', is not handed to the event callback and
\* changes neither the connection nor anything of the application.
ThmC30 ==
  [][(op' = "wsMessage" /\ wsLast' \notin {"telemetry", "defect"}) =>
       /\ UNCHANGED <<wsEvents, wsOpen, wsReopen>>
       /\ UNCHANGED <<reactVars, closureVars, coreVars, graphVars, detVars,
                      videoVars>>]_vars

WitC30 ==
  /\ op = "wsMessage" /\ wsLast = "array" /\ Len(wsEvents) = 2
  /\ lastFrame /\ rafPending /\ warmup = WarmupFrames

\* ---------------------------------------------------------------- claims C31-C40
\* C31: no buffer outgrows its capacity: the score smoothing buffer holds at
\* most 8 entries, the activation edges (RateWindow) at most 120, the score
\* density window at most 300, the activation density window at most 600,
\* the notification log at most 100, the toast list at most 5; a full score
\* buffer or a full edge list that takes an entry loses its oldest one.
ThmC31 ==
  /\ [](/\ Len(scoreBuf) <= ScoreBufCap /\ Len(recentActivations) <= RateCap
        /\ valuesLen <= ValuesCap /\ actLen <= ActCap
        /\ notifLen <= NotifCap /\ toastLen <= ToastCap)
  /\ [][op' = "tick" =>
          LET ra == Prune(recentActivations, now) IN
          /\ Len(scoreBuf) = ScoreBufCap =>
               SubSeq(scoreBuf', 1, ScoreBufCap - 1) = Tail(scoreBuf)
          /\ (Len(ra) = RateCap /\ ~prevActive /\ active') =>
               recentActivations' = Append(Tail(ra), now)]_vars

\* the second flash of the clip: a detection has been published with the
\* notification log and the toast list full, the score buffer has been full
\* for a whole cycle and the density windows are full
WitC31 ==
  /\ op = "tick" /\ Len(recentActivations) = 2 /\ lastFire > StartTime
  /\ Len(scoreBuf) = ScoreBufCap
  /\ valuesLen = ValuesCap /\ actLen = ActCap
  /\ notifLen = NotifCap /\ toastLen = ToastCap

\* C32: the controller is a negative feedback: an update it applies lowers
\* the entry threshold when the 10 s window holds fewer edges than the
\* target rate of 0.2/s (2 edges), and raises it when it holds more.
CexC32 ==
  [][(op' = "tick" /\ sensitivity' # sensitivity) =>
       LET cnt == Len(Prune(recentActivations, now)) IN
       /\ cnt < TargetEdges => sensitivity' < cSens
       /\ cnt > TargetEdges => sensitivity' > cSens]_vars

\* C36: in exact arithmetic the controller never raises the entry threshold:
\* it is non-increasing along every run, and it changes only on evaluations
\* that find at least 5 edges in the 10 s window.
CexC36 ==
  [][op' = "tick" =>
       /\ sensitivity' <= sensitivity
       /\ sensitivity' # sensitivity =>
            Len(Prune(recentActivations, now)) >= MinEdgesToApply]_vars

CexC38 ==
  /\ Len(dets) <= 1
  /\ \A i \in 1..Len(dets) : dets[i].running => detectorRef = i

\* C33: a 'defect' event that arrives while the camera is on, or while
\* playActive is false, is dropped: it changes nothing of the application
\* (last defect, notification log, toasts, the players); one that arrives
\* with the camera off and playActive true becomes the last defect.  (The
\* flash and the beep are issued by the same branch as setLastDefect.)
ThmC33 ==
  [][(op' = "wsMessage" /\ wsLast' = "defect") =>
       IF camEnabled \/ ~playActive
       THEN UNCHANGED <<logVars, appVars, reactVars, closureVars, coreVars,
                        graphVars, detVars, videoVars>>
       ELSE lastDefect' = Len(wsEvents') /\ lastDefect' # lastDefect]_vars

\* a defect was handled during playback; the camera was then switched on and
\* the next defect was dropped although playActive is still true
WitC33 ==
  /\ op = "wsMessage" /\ wsLast = "defect" /\ camEnabled /\ playActive
  /\ Len(wsEvents) = 2 /\ lastDefect = 1

\* C39: once the disconnect function returned by connectAggregator has been
\* called, no socket is opened any more and no event reaches the callback.
CexC39 ==
  [][disconnected => ((wsOpen' => wsOpen) /\ wsEvents' = wsEvents)]_vars

\* C40 (camera off, both players mounted): once the play and pause
\* notifications of the front player have been delivered, playActive is true
\* exactly when the front video or the rear video is playing.
CexC40 ==
  (~camEnabled /\ ~pendingPlay /\ ~pendingPause) =>
    (playActive <=> ((srcSet /\ ~paused) \/ rearPlaying))

\* C34: after every analyze tick and after every reset, an inactive alarm
\* has no hold left (hold = 0) and a sustain counter below the activation
\* level (sustain <= 2).
ThmC34 == ~active => (hold = 0 /\ sustain < SustainOn)

\* the alarm was raised since the last reset, has been released, and the
\* counter has climbed back to 2
WitC34 ==
  /\ op = "tick" /\ ~active /\ Len(recentActivations) = 1
  /\ sustain = SustainOn - 1 /\ hold = 0

\* C35: 18 scored ticks in a row with the mean below exit leave the alarm
\* released, whatever the sustain counter and the hold were before (at most
\* 10 ticks take sustain to 0, the last of them and 7 more use up the hold,
\* the next releases), and no tick with the mean below exit raises the
\* alarm.
ThmC35 ==
  /\ [](belowRun = ReleaseTicks => ~active)
  /\ [][(op' = "tick" /\ belowRun' > 0) => ~(~active /\ active')]_vars

\* the worst case: the alarm is released on the 18th tick and not before
WitC35 ==
  /\ op = "tick" /\ ~active /\ belowRun = ReleaseTicks
  /\ zeroRun = HoldFrames + 1


====
